---- MODULE Spec2Model ----
(***************************************************************************)
(* Model of src/app.py: the resume formatter (format_resume, driven by    *)
(* /customize-resume) and the /generate-cover-letter request handler.     *)
(*                                                                         *)
(* A text is a sequence of one-character strings.  The bullet glyph        *)
(* U+2022, the at-sign and the tab are named BULLET, AT and TAB.           *)
(***************************************************************************)
EXTENDS Integers, Sequences, FiniteSets, TLC

VARIABLES
    content,          \* format_resume: texts of the uploaded paragraphs
    idx,              \* format_resume: position of the for-loop in content
    document,         \* output_doc.paragraphs
    previous_style,   \* format_resume local previous_style
    pc,               \* /customize-resume: "idle", "format" or "done"
    pass,             \* how many uploads have been formatted in a row
    first_roles,      \* roles of the document that was uploaded again
    response,         \* last HTTP response of the modelled endpoint
    cpc,              \* /generate-cover-letter: position of the handler
    job_description_path,   \* handler local, None before it is set
    resume_path,            \* handler local, None before it is set
    cover_letter,           \* handler local: the completion
    output_filename,        \* handler local
    uploads,          \* files in UPLOAD_FOLDER
    outputs,          \* files in OUTPUT_FOLDER: name -> paragraphs
    gen_calls,        \* calls made to the completion API
    log,              \* app.logger.error and print messages
    clock,            \* wall clock, in ticks
    served,           \* requests received by /generate-cover-letter
    alive,            \* the server process is running
    request_calls,    \* completion API calls made for the current request
    paths_written,    \* output paths the requests have written to, in order
    letter,           \* format_cover_letter: document.paragraphs
    letter_args,      \* format_cover_letter: its arguments
    lpc               \* format_cover_letter: "idle" or "done"

resume_vars ==
    <<content, idx, document, previous_style, pc, pass, first_roles>>

cover_vars ==
    <<cpc, job_description_path, resume_path, cover_letter, output_filename,
      uploads, outputs, gen_calls, log, clock, served, alive, request_calls>>

letter_vars == <<letter, letter_args, lpc>>

vars == <<resume_vars, response, cover_vars, paths_written, letter_vars>>

\* ------------------------------------------------------------------------
\* Characters and Python str operations
\* ------------------------------------------------------------------------
BULLET == "u2022"

AT == "@"

TAB == "\t"

None == "None"

LowerSeq ==
    <<"a", "b", "c", "d", "e", "f", "g", "h", "i", "j", "k", "l", "m",
      "n", "o", "p", "q", "r", "s", "t", "u", "v", "w", "x", "y", "z">>

UpperSeq ==
    <<"A", "B", "C", "D", "E", "F", "G", "H", "I", "J", "K", "L", "M",
      "N", "O", "P", "Q", "R", "S", "T", "U", "V", "W", "X", "Y", "Z">>

Range(f) == {f[i] : i \in DOMAIN f}

NL == "\n"

Whitespace == {" ", TAB, NL}

\* str.upper() on one character
UpperChar(c) ==
    IF c \in Range(LowerSeq)
    THEN UpperSeq[CHOOSE i \in DOMAIN LowerSeq : LowerSeq[i] = c]
    ELSE c

\* str.upper()
StrUpper(s) == [i \in DOMAIN s |-> UpperChar(s[i])]

\* str.isupper(): at least one cased character and no lower-case one
IsUpper(s) ==
    /\ \E i \in DOMAIN s : s[i] \in Range(UpperSeq)
    /\ \A i \in DOMAIN s : s[i] \notin Range(LowerSeq)

\* str.strip()
RECURSIVE LStrip(_)
LStrip(s) ==
    IF s # <<>> /\ Head(s) \in Whitespace THEN LStrip(Tail(s)) ELSE s

RECURSIVE RStrip(_)
RStrip(s) ==
    IF s # <<>> /\ s[Len(s)] \in Whitespace
    THEN RStrip(SubSeq(s, 1, Len(s) - 1))
    ELSE s

Strip(s) == RStrip(LStrip(s))

\* str.find(sub) + 1: the first position of sub in s, 0 when absent
Find(s, sub) ==
    LET hits == {i \in 1..(Len(s) - Len(sub) + 1) :
                    SubSeq(s, i, i + Len(sub) - 1) = sub}
    IN  IF hits = {} THEN 0
        ELSE CHOOSE i \in hits : \A j \in hits : i <= j

\* sub in s
In(sub, s) == Find(s, sub) # 0

\* s.startswith(sub)
StartsWith(s, sub) ==
    Len(s) >= Len(sub) /\ SubSeq(s, 1, Len(sub)) = sub

\* s.split(sep)
RECURSIVE Split(_, _)
Split(s, sep) ==
    LET i == Find(s, sep)
    IN  IF i = 0 THEN <<s>>
        ELSE <<SubSeq(s, 1, i - 1)>>
             \o Split(SubSeq(s, i + Len(sep), Len(s)), sep)

\* s.split(sep, 1)
SplitOnce(s, sep) ==
    LET i == Find(s, sep)
    IN  IF i = 0 THEN <<s>>
        ELSE <<SubSeq(s, 1, i - 1), SubSeq(s, i + Len(sep), Len(s))>>

\* sep.join(parts)
RECURSIVE Join(_, _)
Join(parts, sep) ==
    IF parts = <<>> THEN <<>>
    ELSE IF Len(parts) = 1 THEN parts[1]
    ELSE parts[1] \o sep \o Join(Tail(parts), sep)

StrUniversity ==
    <<"U", "n", "i", "v", "e", "r", "s", "i", "t", "y">>

StrCourses ==
    <<"C", "o", "u", "r", "s", "e", "s">>

StrSkills ==
    <<"S", "k", "i", "l", "l", "s">>

StrDash == <<" ", "-", " ">>

StrBulletSep == <<" ", BULLET, " ">>

\* ------------------------------------------------------------------------
\* python-docx paragraphs
\* ------------------------------------------------------------------------
\* run: a text with its bold flag
Run(text, bold) == [text |-> text, bold |-> bold]

\* Paragraph.text: the concatenation of the runs
RECURSIVE RunsText(_)
RunsText(runs) ==
    IF runs = <<>> THEN <<>> ELSE Head(runs).text \o RunsText(Tail(runs))

ParagraphText(p) == RunsText(p.runs)

\* A paragraph of the output document.  role is the branch of
\* format_resume that produced it and src the stripped input text.
Paragraph(style, runs, space_before, role, src) ==
    [style |-> style, runs |-> runs, space_before |-> space_before,
     role |-> role, src |-> src]

Roles(doc) == [k \in DOMAIN doc |-> doc[k].role]

Texts(doc) == [k \in DOMAIN doc |-> ParagraphText(doc[k])]

\* ------------------------------------------------------------------------
\* format_resume
\* ------------------------------------------------------------------------
\* variant: a header must also consist of letters only
IsSectionHeader_Alpha(text) ==
    /\ text # <<>>
    /\ \A i \in DOMAIN text : text[i] \in Range(UpperSeq)

\* text.isupper() and BULLET not in text and '@' not in text
IsSectionHeader(text) ==
    IsUpper(text) /\ ~In(<<BULLET>>, text) /\ ~In(<<AT>>, text)

\* variant: 'or' in place of 'and'
IsContact_Either(text) == In(<<AT>>, text) \/ In(<<BULLET>>, text)

\* '@' in text and BULLET in text
IsContact(text) == In(<<AT>>, text) /\ In(<<BULLET>>, text)

\* variant: the items are joined without being stripped
ContactText_NoStrip(text) == Join(Split(text, <<BULLET>>), StrBulletSep)

\* ' (bullet) '.join(item.strip() for item in text.split(BULLET))
ContactText(text) ==
    LET items    == Split(text, <<BULLET>>)
        contacts == [k \in DOMAIN items |-> Strip(items[k])]
    IN  Join(contacts, StrBulletSep)

\* runs of an EducationStyle paragraph: nothing is added unless the text
\* has a tab, and at most three parts are added
InstitutionRuns(text) ==
    LET parts == Split(text, <<TAB>>)
    IN  IF Len(parts) >= 2
        THEN <<Run(parts[1], TRUE), Run(<<TAB>> \o parts[2], FALSE)>>
             \o (IF Len(parts) > 2
                 THEN <<Run(<<TAB>> \o parts[3], FALSE)>>
                 ELSE <<>>)
        ELSE <<>>

\* variant: rsplit in place of split, the last ' - ' separates the title
BulletRuns_LastDash(text) ==
    LET rest == Strip(Tail(text))
        hits == {i \in 1..(Len(rest) - 2) : SubSeq(rest, i, i + 2) = StrDash}
        last == CHOOSE i \in hits : \A j \in hits : j <= i
    IN  IF hits # {}
        THEN <<Run(<<BULLET, " ">>, TRUE),
               Run(Strip(SubSeq(rest, 1, last - 1)), TRUE),
               Run(StrDash \o Strip(SubSeq(rest, last + 3, Len(rest))),
                   FALSE)>>
        ELSE <<Run(<<BULLET, " ">>, TRUE), Run(rest, FALSE)>>

\* runs of a bullet entry; text still carries the leading bullet
BulletRuns(text) ==
    LET rest == Strip(Tail(text))
    IN  IF In(StrDash, rest)
        THEN LET td == SplitOnce(rest, StrDash)
             IN  <<Run(<<BULLET, " ">>, TRUE),
                   Run(Strip(td[1]), TRUE),
                   Run(StrDash \o Strip(td[2]), FALSE)>>
        ELSE <<Run(<<BULLET, " ">>, TRUE), Run(rest, FALSE)>>

\* runs of a course or skill listing
LabelRuns(text) ==
    LET lc == IF In(<<":">>, text)
              THEN SplitOnce(text, <<":">>)
              ELSE <<text, <<>> >>
    IN  <<Run(lc[1] \o <<":">>, TRUE), Run(lc[2], FALSE)>>

\* variant: the slice [:-1] is missing
IsFirstParagraph_NoSlice(paragraphs) == paragraphs = <<>>

\* not document.paragraphs[:-1], evaluated after the paragraph was added
IsFirstParagraph(paragraphs) ==
    SubSeq(paragraphs, 1, Len(paragraphs) - 1) = <<>>

\* The body of the for-loop for one non-empty stripped text: the paragraph
\* is added first, then styled by the first branch that applies.
FormatParagraph(doc, prev, text) ==
    LET added == Append(doc, Paragraph("Normal", <<>>, 0, None, text))
        n     == Len(added)
        Put(p, ps) == [document |-> [added EXCEPT ![n] = p],
                       previous_style |-> ps]
    IN  IF IsSectionHeader(text)
        THEN Put(Paragraph("SectionStyle", <<Run(text, FALSE)>>,
                           IF prev # None THEN 6 ELSE 4,
                           "SectionHeader", text),
                 "SectionStyle")
        ELSE IF IsContact(text)
        THEN Put(Paragraph("ContactStyle",
                           <<Run(ContactText(text), FALSE)>>, 0,
                           "ContactLine", text),
                 "ContactStyle")
        ELSE IF IsFirstParagraph(added)
        THEN Put(Paragraph("NameStyle", <<Run(StrUpper(text), FALSE)>>, 0,
                           "Name", text),
                 "NameStyle")
        ELSE IF prev = "SectionStyle" /\ In(StrUniversity, text)
        THEN Put(Paragraph("EducationStyle", InstitutionRuns(text), 0,
                           "InstitutionRow", text),
                 "EducationStyle")
        ELSE IF StartsWith(text, <<BULLET>>)
        THEN Put(Paragraph("ContentStyle", BulletRuns(text), 0,
                           "BulletEntry", text),
                 "ContentStyle")
        ELSE IF prev = "SectionStyle"
                /\ (In(StrCourses, text) \/ In(StrSkills, text))
        THEN Put(Paragraph("ContentStyle", LabelRuns(text), 0,
                           "LabelValue", text),
                 "ContentStyle")
        ELSE Put(Paragraph("ContentStyle", <<Run(text, FALSE)>>, 0,
                           "PlainText", text),
                 "ContentStyle")

\* variant: only a paragraph without any text is skipped
LoopBody_NoStrip(doc, prev, raw) ==
    IF raw = <<>>
    THEN [document |-> doc, previous_style |-> prev]
    ELSE FormatParagraph(doc, prev, Strip(raw))

\* One iteration of the for-loop: a paragraph that is empty after
\* stripping is skipped, any other is formatted.
LoopBody(doc, prev, raw) ==
    LET text == Strip(raw)
    IN  IF text = <<>>
        THEN [document |-> doc, previous_style |-> prev]
        ELSE FormatParagraph(doc, prev, text)

\* format_resume(content, document) on a fresh document
RECURSIVE FormatFrom(_, _, _)
FormatFrom(doc, prev, paras) ==
    IF paras = <<>> THEN doc
    ELSE LET st == LoopBody(doc, prev, Head(paras))
         IN  FormatFrom(st.document, st.previous_style, Tail(paras))

FormatResume(paras) == FormatFrom(<<>>, None, paras)

\* ------------------------------------------------------------------------
\* Uploaded resumes
\* ------------------------------------------------------------------------
MaxParas == 3

MaxPasses == 2

\* 'Jane Doe'
LineJaneDoe ==
    <<"J", "a", "n", "e", " ", "D", "o", "e">>

\* 'jane@x.com (bullet) 555-1234'
LineContact ==
    <<"j", "a", "n", "e", AT, "x", ".", "c", "o", "m", " ", BULLET, " ", "5",
    "5", "5", "-", "1", "2", "3", "4">>

\* 'EDUCATION'
LineEducation ==
    <<"E", "D", "U", "C", "A", "T", "I", "O", "N">>

\* 'Acme University\tBS CS\t2022'
LineAcme ==
    <<"A", "c", "m", "e", " ", "U", "n", "i", "v", "e", "r", "s", "i", "t",
    "y", TAB, "B", "S", " ", "C", "S", TAB, "2", "0", "2", "2">>

\* '(bullet) Built a thing - reduced latency 30%'
LineBuilt ==
    <<BULLET, " ", "B", "u", "i", "l", "t", " ", "a", " ", "t", "h", "i", "n",
    "g", " ", "-", " ", "r", "e", "d", "u", "c", "e", "d", " ", "l", "a", "t",
    "e", "n", "c", "y", " ", "3", "0", "%">>

\* 'a@b (bullet)c'
LineContactRaw ==
    <<"a", AT, "b", " ", BULLET, "c">>

\* 'MY WORK'
LineEdu ==
    <<"M", "Y", " ", "W", "O", "R", "K">>

\* 'X University\tBS'
LineUniTwo ==
    <<"X", " ", "U", "n", "i", "v", "e", "r", "s", "i", "t", "y", TAB, "B",
    "S">>

\* 'X University'
LineUniOne ==
    <<"X", " ", "U", "n", "i", "v", "e", "r", "s", "i", "t", "y">>

\* '(bullet) T - d - e'
LineBulletTwoDash ==
    <<BULLET, " ", "T", " ", "-", " ", "d", " ", "-", " ", "e">>

\* '(bullet)x'
LineBulletPlain ==
    <<BULLET, "x">>

\* 'Skills: Go'
LineSkills ==
    <<"S", "k", "i", "l", "l", "s", ":", " ", "G", "o">>

\* ' \t'
LineBlank ==
    <<" ", TAB>>

\* '(bullet)A@B'
LineBulletAt ==
    <<BULLET, "A", AT, "B">>


\* the lines resumes are built from
Lines ==
    {LineJaneDoe, LineContactRaw, LineEdu, LineUniTwo, LineUniOne,
     LineBulletTwoDash, LineBulletPlain, LineSkills, <<>>,
     LineBlank, LineBulletAt}

\* the input of end-to-end scenario 1
Scenario1 ==
    <<LineJaneDoe, LineContact, LineEducation, LineAcme, LineBuilt>>

Resumes ==
    UNION {[1..n -> Lines] : n \in 0..MaxParas} \cup {Scenario1}

\* ------------------------------------------------------------------------
\* /customize-resume
\* ------------------------------------------------------------------------
\* format_cover_letter has not been called
NoArgs == [called |-> FALSE]

\* no request has been answered yet
Pending == [kind |-> "pending", status |-> 0]

Init ==
    /\ content = <<>>
    /\ idx = 1
    /\ document = <<>>
    /\ previous_style = None
    /\ pc = "idle"
    /\ pass = 0
    /\ first_roles = <<>>
    /\ response = Pending
    /\ cpc = "idle"
    /\ job_description_path = None
    /\ resume_path = None
    /\ cover_letter = None
    /\ output_filename = None
    /\ uploads = {}
    /\ outputs = <<>>
    /\ gen_calls = 0
    /\ log = {}
    /\ clock = 0
    /\ served = 0
    /\ alive = TRUE
    /\ request_calls = <<>>
    /\ paths_written = <<>>
    /\ letter = <<>>
    /\ letter_args = NoArgs
    /\ lpc = "idle"

\* the request has no 'resume' file, or its name does not end in .docx
CustomizeResumeRejected ==
    /\ pc \in {"idle", "done"}
    /\ \E err \in {"No resume file uploaded", "Please upload a .docx file"} :
          response' = [kind |-> "error", status |-> 400, error |-> err]
    /\ UNCHANGED <<resume_vars, cover_vars, paths_written, letter_vars>>

\* a .docx resume is uploaded: input_doc is read, output_doc is created
\* and format_resume starts
CustomizeResumeBegin ==
    /\ pc = "idle"
    /\ \E paras \in Resumes : content' = paras
    /\ idx' = 1
    /\ document' = <<>>
    /\ previous_style' = None
    /\ pc' = "format"
    /\ pass' = 1
    /\ first_roles' = <<>>
    /\ response' = Pending
    /\ UNCHANGED <<cover_vars, paths_written, letter_vars>>

\* one iteration of the loop of format_resume
FormatStep ==
    /\ pc = "format"
    /\ idx <= Len(content)
    /\ LET st == LoopBody(document, previous_style, content[idx])
       IN  /\ document' = st.document
           /\ previous_style' = st.previous_style
    /\ idx' = idx + 1
    /\ UNCHANGED <<content, pc, pass, first_roles, response, cover_vars,
                   paths_written, letter_vars>>

\* os.path.join(OUTPUT_FOLDER, 'formatted_resume.docx'): the same name for
\* every request
FormattedResumeFilename == [tag |-> "formatted_resume", ext |-> "docx"]

\* the loop is over: output_doc is saved as formatted_resume.docx
CustomizeResumeEnd ==
    /\ pc = "format"
    /\ idx > Len(content)
    /\ pc' = "done"
    /\ paths_written' = Append(paths_written, FormattedResumeFilename)
    /\ response' = [kind |-> "success", status |-> 200,
                    file_path |-> "formatted_resume.docx"]
    /\ UNCHANGED <<content, idx, document, previous_style, pass,
                   first_roles, cover_vars, letter_vars>>

\* formatted_resume.docx is downloaded and uploaded again
CustomizeResumeAgain ==
    /\ pc = "done"
    /\ pass < MaxPasses
    /\ content' = Texts(document)
    /\ first_roles' = Roles(document)
    /\ idx' = 1
    /\ document' = <<>>
    /\ previous_style' = None
    /\ pc' = "format"
    /\ pass' = pass + 1
    /\ response' = Pending
    /\ UNCHANGED <<cover_vars, paths_written, letter_vars>>

Next ==
    \/ CustomizeResumeRejected
    \/ CustomizeResumeBegin
    \/ FormatStep
    \/ CustomizeResumeEnd
    \/ CustomizeResumeAgain

Spec == Init /\ [][Next]_vars

\* ------------------------------------------------------------------------
\* /generate-cover-letter
\* ------------------------------------------------------------------------
MaxRequests == 2

MaxClock == 3

\* ticks of the clock per second; a timestamp has a resolution of a second
TicksPerSecond == 2

ALLOWED_EXTENSIONS == {<<"d", "o", "c", "x">>}

\* str.lower()
StrLower(s) ==
    [i \in DOMAIN s |->
        IF s[i] \in Range(UpperSeq)
        THEN LowerSeq[CHOOSE k \in DOMAIN UpperSeq : UpperSeq[k] = s[i]]
        ELSE s[i]]

\* the last position of the character c in s, 0 when absent
FindLast(s, c) ==
    LET hits == {i \in DOMAIN s : s[i] = c}
    IN  IF hits = {} THEN 0
        ELSE CHOOSE i \in hits : \A j \in hits : j <= i

\* '.' in filename and filename.rsplit('.', 1)[1].lower() in
\* ALLOWED_EXTENSIONS
allowed_file(filename) ==
    /\ In(<<".">>, filename)
    /\ StrLower(SubSeq(filename, FindLast(filename, ".") + 1, Len(filename)))
         \in ALLOWED_EXTENSIONS

\* werkzeug secure_filename on the names used here: path separators become
\* spaces, whitespace-separated pieces are joined with '_', and leading and
\* trailing dots and underscores are removed
RECURSIVE StripChars(_, _)
StripChars(s, chars) ==
    IF s # <<>> /\ Head(s) \in chars THEN StripChars(Tail(s), chars)
    ELSE IF s # <<>> /\ s[Len(s)] \in chars
    THEN StripChars(SubSeq(s, 1, Len(s) - 1), chars)
    ELSE s

secure_filename(filename) ==
    LET spaced == [i \in DOMAIN filename |->
                      IF filename[i] = "/" THEN " " ELSE filename[i]]
        pieces == SelectSeq(Split(spaced, <<" ">>), LAMBDA p : p # <<>>)
    IN  StripChars(Join(pieces, <<"_">>), {".", "_"})

NameJd ==
    <<"j", "d", ".", "d", "o", "c", "x">>

NameCv ==
    <<"c", "v", ".", "D", "O", "C", "X">>

NamePdf ==
    <<"c", "v", ".", "p", "d", "f">>

NameNested ==
    <<".", ".", "/", "j", "d", ".", "d", "o", "c", "x">>

\* the file names of uploads
Filenames == {NameJd, NameCv, NamePdf, NameNested}

\* an uploaded file: its name, and whether python-docx can open it
UploadedFiles == [filename : Filenames, readable : BOOLEAN]

FieldValue ==
    <<"A", "d", "a">>

\* request.form.get(...): None when absent
FormValues == {None, <<>>, FieldValue}

Letter ==
    <<"P", "a", "r", "a", " ", "o", "n", "e", ".", NL, NL, "P", "a", "r", "a",
    " ", "t", "w", "o", ".">>

\* what generate_cover_letter returns: None after an exception of the
\* API, else the content of the completion
Completions == {None, <<>>, Letter}

\* variant: only None is rejected, an empty string is accepted
Truthy_NotNone(v) == v # None

\* Python truth of an optional string
Truthy(v) == v # None /\ v # <<>>

\* the handler returned nothing
NoResponse == [kind |-> "none", status |-> 0]

\* jsonify({"error": message}), status
Error(status, message) ==
    [kind |-> "error", status |-> status, error |-> message]

\* datetime.now().strftime("%Y%m%d%H%M%S")
Timestamp(now) == now \div TicksPerSecond

\* f"cover_letter_{timestamp}.docx"
CoverLetterFilename(timestamp) ==
    [tag |-> "cover_letter", timestamp |-> timestamp, ext |-> "docx"]

\* the paragraphs write_docx adds: the stripped non-empty lines
DocxParagraphs(text) ==
    LET lines == Split(text, <<NL>>)
        kept  == SelectSeq(lines, LAMBDA l : Strip(l) # <<>>)
    IN  [k \in DOMAIN kept |-> Strip(kept[k])]

\* outputs after a file was saved under name
Saved(files, name, paragraphs) ==
    [n \in DOMAIN files \cup {name} |->
        IF n = name THEN paragraphs ELSE files[n]]

\* a line of the log: the message and the file path it names, if any
LogEntry(message, path) == [message |-> message, path |-> path]

Respond(r) ==
    /\ response' = r
    /\ cpc' = "idle"
    /\ job_description_path' = None
    /\ resume_path' = None
    /\ cover_letter' = None
    /\ output_filename' = None

\* read_docx failed: it prints the error and calls exit(1).  SystemExit is
\* not an Exception, so the handler's except clause does not catch it and
\* no response is returned; whether the whole process or only the serving
\* thread ends depends on the WSGI server.
ExitInReadDocx ==
    /\ Respond(NoResponse)
    /\ log' = log \cup {LogEntry("Error reading .docx file", <<>>)}
    /\ alive' \in BOOLEAN

\* lines 365-367: an Exception raised in the handler is logged and
\* answered with status 500
ExceptionInHandler ==
    /\ Respond(Error(500, "str(e)"))
    /\ log' = log \cup {LogEntry("Error in generate_cover_letter_endpoint",
                                <<>>)}
    /\ UNCHANGED alive

\* lines 313-324: the files of the request are checked, the job
\* description is saved and read
ReceiveJobDescription ==
    /\ cpc = "idle"
    /\ alive
    /\ served < MaxRequests
    /\ served' = served + 1
    /\ request_calls' = <<>>
    /\ \E files \in SUBSET {"job_description", "resume"} :
          IF files # {"job_description", "resume"}
          THEN /\ Respond(Error(400,
                     "Both job description and resume files are required"))
               /\ UNCHANGED <<uploads, log, alive>>
          ELSE \E file \in UploadedFiles :
                  IF ~allowed_file(file.filename)
                  THEN /\ Respond(Error(400,
                             "Invalid file format for job description"))
                       /\ UNCHANGED <<uploads, log, alive>>
                  ELSE \E saved \in BOOLEAN :
                       IF ~saved
                       THEN ExceptionInHandler /\ UNCHANGED uploads
                       ELSE
                       /\ uploads' = uploads
                                       \cup {secure_filename(file.filename)}
                       /\ IF file.readable
                          THEN /\ job_description_path'
                                     = secure_filename(file.filename)
                               /\ cpc' = "resume"
                               /\ UNCHANGED <<response, resume_path,
                                              cover_letter, output_filename,
                                              log, alive>>
                          ELSE ExitInReadDocx
    /\ UNCHANGED <<resume_vars, outputs, gen_calls, clock, paths_written,
                   letter_vars>>

\* lines 327-334: the resume is checked, saved and read
ReceiveResume ==
    /\ cpc = "resume"
    /\ \E file \in UploadedFiles :
          IF ~allowed_file(file.filename)
          THEN /\ Respond(Error(400, "Invalid file format for resume"))
               /\ UNCHANGED <<uploads, log, alive>>
          ELSE \E saved \in BOOLEAN :
               IF ~saved
               THEN ExceptionInHandler /\ UNCHANGED uploads
               ELSE
               /\ uploads' = uploads \cup {secure_filename(file.filename)}
               /\ IF file.readable
                  THEN /\ resume_path' = secure_filename(file.filename)
                       /\ cpc' = "form"
                       /\ UNCHANGED <<response, job_description_path,
                                      cover_letter, output_filename,
                                      log, alive>>
                  ELSE ExitInReadDocx
    /\ UNCHANGED <<resume_vars, outputs, gen_calls, clock, served,
                   request_calls, paths_written, letter_vars>>

\* lines 337-346 and 362-363: the form is checked and the completion API
\* is called
Generate ==
    /\ cpc = "form"
    /\ \E user_name \in FormValues, job_title \in FormValues,
          company_name \in FormValues :
          IF ~(Truthy(user_name) /\ Truthy(job_title) /\ Truthy(company_name))
          THEN /\ Respond(Error(400, "Missing required parameters"))
               /\ UNCHANGED <<gen_calls, log, request_calls>>
          ELSE /\ gen_calls' = gen_calls + 1
               /\ request_calls' = Append(request_calls,
                      [user_name |-> user_name, job_title |-> job_title,
                       company_name |-> company_name,
                       job_description |-> job_description_path,
                       user_resume |-> resume_path])
               /\ \E completion \in Completions :
                     /\ log' = IF completion = None
                               THEN log \cup {LogEntry(
                                        "Error generating cover letter", <<>>)}
                               ELSE log
                     /\ IF Truthy(completion)
                        THEN /\ cover_letter' = completion
                             /\ cpc' = "write"
                             /\ UNCHANGED <<response, job_description_path,
                                            resume_path, output_filename>>
                        ELSE Respond(Error(500,
                                 "Failed to generate cover letter"))
    /\ UNCHANGED <<resume_vars, uploads, outputs, clock, served, alive,
                   paths_written, letter_vars>>

\* write_docx(content, file_path): the file is saved and TRUE returned, or
\* an exception (raised is TRUE) is logged and FALSE returned
write_docx(files, messages, text, file_path, raised) ==
    IF raised
    THEN [outputs |-> files,
          log |-> messages \cup {LogEntry("Error writing .docx file", <<>>)},
          result |-> FALSE]
    ELSE [outputs |-> Saved(files, file_path, DocxParagraphs(text)),
          log |-> messages,
          result |-> TRUE]

\* lines 349-353: the output name is built from the clock and write_docx
\* is called; its result is not looked at
WriteOutput ==
    /\ cpc = "write"
    /\ LET name == CoverLetterFilename(Timestamp(clock))
       IN  /\ output_filename' = name
           /\ paths_written' = Append(paths_written, name)
           /\ \E raised \in BOOLEAN :
                 LET w == write_docx(outputs, log, cover_letter, name, raised)
                 IN  /\ outputs' = w.outputs
                     /\ log' = w.log
    /\ cpc' = "cleanup"
    /\ UNCHANGED <<resume_vars, response, job_description_path, resume_path,
                   cover_letter, uploads, gen_calls, clock, served, alive,
                   request_calls, letter_vars>>

\* variant: the try encloses the loop, the first failing os.remove ends it
cleanup_files_Abort(files, messages, file_paths, failing) ==
    IF file_paths \cap files \cap failing = {}
    THEN [uploads |-> files \ file_paths, log |-> messages]
    ELSE [uploads |-> files,
          log |-> messages
                    \cup {LogEntry("Error cleaning up file",
                              CHOOSE p \in file_paths \cap files \cap failing :
                                  TRUE)}]

\* cleanup_files(*file_paths): every existing path is removed; a failing
\* os.remove (the paths in failing) is logged with its path and the loop
\* goes on
cleanup_files(files, messages, file_paths, failing) ==
    [uploads |-> files \ (file_paths \ failing),
     log |-> messages
               \cup {LogEntry("Error cleaning up file", p) :
                        p \in file_paths \cap files \cap failing}]

\* lines 356-361: the uploads are cleaned up and success is returned
CleanupAndRespond ==
    /\ cpc = "cleanup"
    /\ \E failing \in SUBSET {job_description_path, resume_path} :
          LET c == cleanup_files(uploads, log,
                                 {job_description_path, resume_path}, failing)
          IN  /\ uploads' = c.uploads
              /\ log' = c.log
    /\ Respond([kind |-> "success", status |-> 200,
                message |-> "Cover letter generated successfully",
                file_path |-> output_filename])
    /\ UNCHANGED <<resume_vars, outputs, gen_calls, clock, served, alive,
                   request_calls, paths_written, letter_vars>>

\* time passes
Tick ==
    /\ clock < MaxClock
    /\ clock' = clock + 1
    /\ UNCHANGED <<resume_vars, response, cpc, job_description_path,
                   resume_path, cover_letter, output_filename, uploads,
                   outputs, gen_calls, log, served, alive, request_calls,
                   paths_written, letter_vars>>

NextCover ==
    \/ ReceiveJobDescription
    \/ ReceiveResume
    \/ Generate
    \/ WriteOutput
    \/ CleanupAndRespond
    \/ Tick

SpecCover == Init /\ [][NextCover]_vars

\* ------------------------------------------------------------------------
\* format_cover_letter
\* ------------------------------------------------------------------------
\* 'Ada'
NameAda ==
    <<"A", "d", "a">>

\* 'Bo Li'
NameBoLi ==
    <<"B", "o", " ", "L", "i">>

\* 'a@b.co'
Email ==
    <<"a", AT, "b", ".", "c", "o">>

\* '555'
Phone ==
    <<"5", "5", "5">>

\* 'gh/ada'
Github ==
    <<"g", "h", "/", "a", "d", "a">>

\* '1 Main St'
Address ==
    <<"1", " ", "M", "a", "i", "n", " ", "S", "t">>

\* 'Acme'
CompanyAcme ==
    <<"A", "c", "m", "e">>

\* 'Initech'
CompanyInitech ==
    <<"I", "n", "i", "t", "e", "c", "h">>

\* 'November 03, 2026'
DateNov ==
    <<"N", "o", "v", "e", "m", "b", "e", "r", " ", "0", "3", ",", " ", "2",
    "0", "2", "6">>

\* 'December 24, 2026'
DateDec ==
    <<"D", "e", "c", "e", "m", "b", "e", "r", " ", "2", "4", ",", " ", "2",
    "0", "2", "6">>

\* 'a'
BodyOne ==
    <<"a">>

\* 'a\nb': one paragraph of two lines
BodyOneNewline ==
    <<"a", NL, "b">>

\* 'a\n\n\n\nb': an empty piece between two paragraphs
BodyFourNewlines ==
    <<"a", NL, NL, NL, NL, "b">>

\* 'a\n\n\nb'
BodyThreeNewlines ==
    <<"a", NL, NL, NL, "b">>

\* '\n\na \n\n': blank pieces around a padded paragraph
BodyPadded ==
    <<NL, NL, "a", " ", NL, NL>>

\* ' \n\n ': blank pieces only
BodyBlank ==
    <<" ", NL, NL, " ">>

\* '\nHiring Manager'
StrHiringManager ==
    <<NL, "H", "i", "r", "i", "n", "g", " ", "M", "a", "n", "a", "g", "e",
    "r">>

\* 'Dear Hiring Manager,'
StrSalutation ==
    <<"D", "e", "a", "r", " ", "H", "i", "r", "i", "n", "g", " ", "M", "a",
    "n", "a", "g", "e", "r", ",">>

\* 'Sincerely,\n'
StrSincerely ==
    <<"S", "i", "n", "c", "e", "r", "e", "l", "y", ",", NL>>

\* the letter bodies format_cover_letter is applied to
Bodies ==
    {Letter, <<>>, BodyOne, BodyOneNewline, BodyFourNewlines,
     BodyThreeNewlines, BodyPadded, BodyBlank}

\* datetime.now().strftime("%B %d, %Y") on the day of the call
Dates == {DateNov, DateDec}

\* a dict with one more key
WithKey(info, key, value) ==
    [k \in DOMAIN info \cup {key} |-> IF k = key THEN value ELSE info[k]]

\* user_info: name, email, phone and company_name, and optionally github
\* and address
UserInfos ==
    LET base == [name : {NameAda, NameBoLi}, email : {Email},
                 phone : {Phone},
                 company_name : {CompanyAcme, CompanyInitech}]
    IN  base
        \cup {WithKey(i, "github", Github) : i \in base}
        \cup {WithKey(i, "address", Address) : i \in base}
        \cup {WithKey(WithKey(i, "github", Github), "address", Address) :
                 i \in base}

\* document.add_paragraph(style=...) with its runs
LetterParagraph(style, runs) == [style |-> style, runs |-> runs]

\* the text of the contact paragraph
LetterContact(user_info) ==
    user_info["email"] \o StrBulletSep \o user_info["phone"]
    \o (IF "github" \in DOMAIN user_info
        THEN StrBulletSep \o user_info["github"] ELSE <<>>)
    \o (IF "address" \in DOMAIN user_info
        THEN StrBulletSep \o user_info["address"] ELSE <<>>)

\* variant: the body is split at every newline, as write_docx does
LetterContentParagraphs_EveryNewline(text) ==
    LET pieces == Split(text, <<NL>>)
        kept   == SelectSeq(pieces, LAMBDA p : Strip(p) # <<>>)
    IN  [k \in DOMAIN kept |->
            LetterParagraph("ContentStyle", <<Run(Strip(kept[k]), FALSE)>>)]

\* lines 294-298: one ContentStyle paragraph for every piece of
\* content.split('\n\n') that is not blank, with the stripped piece as text
LetterContentParagraphs(text) ==
    LET pieces == Split(text, <<NL, NL>>)
        kept   == SelectSeq(pieces, LAMBDA p : Strip(p) # <<>>)
    IN  [k \in DOMAIN kept |->
            LetterParagraph("ContentStyle", <<Run(Strip(kept[k]), FALSE)>>)]

\* format_cover_letter(document, content, user_info), called on the day
\* today: the paragraphs of document afterwards
format_cover_letter(paragraphs, text, user_info, today) ==
    paragraphs
    \o <<LetterParagraph("HeaderStyle",
                         <<Run(StrUpper(user_info["name"]), TRUE)>>),
         LetterParagraph("HeaderStyle",
                         <<Run(LetterContact(user_info), FALSE)>>),
         LetterParagraph("DateStyle", <<Run(today, FALSE)>>),
         LetterParagraph("RecipientStyle",
                         <<Run(user_info["company_name"] \o StrHiringManager,
                               FALSE)>>),
         LetterParagraph("ContentStyle", <<Run(StrSalutation, FALSE)>>)>>
    \o LetterContentParagraphs(text)
    \o <<LetterParagraph("ContentStyle",
                         <<Run(StrSincerely \o user_info["name"], FALSE)>>)>>

\* format_cover_letter is called on a document fresh from
\* create_cover_letter_template
FormatCoverLetter ==
    /\ lpc = "idle"
    /\ \E text \in Bodies, user_info \in UserInfos, today \in Dates :
          /\ letter' = format_cover_letter(<<>>, text, user_info, today)
          /\ letter_args' = [called |-> TRUE, content |-> text,
                             user_info |-> user_info, today |-> today]
    /\ lpc' = "done"
    /\ UNCHANGED <<resume_vars, response, cover_vars, paths_written>>

NextLetter == FormatCoverLetter

SpecLetter == Init /\ [][NextLetter]_vars

\* ------------------------------------------------------------------------
\* Properties of format_resume
\* ------------------------------------------------------------------------
NonBlank(raw) == Strip(raw) # <<>>

\* the stripped non-empty lines of the first n uploaded paragraphs
StrippedLines(n) ==
    LET kept == SelectSeq(SubSeq(content, 1, n), NonBlank)
    IN  [k \in DOMAIN kept |-> Strip(kept[k])]

Srcs(doc) == [k \in DOMAIN doc |-> doc[k].src]

PrevRole(doc, k) == IF k = 1 THEN None ELSE doc[k - 1].role

C1_RuleRole(text, prevRole, emitted) ==
    IF IsUpper(text) /\ ~In(<<BULLET>>, text) /\ ~In(<<AT>>, text)
    THEN "SectionHeader"
    ELSE IF In(<<AT>>, text) /\ In(<<BULLET>>, text) THEN "ContactLine"
    ELSE IF ~emitted THEN "Name"
    ELSE IF prevRole = "SectionHeader" /\ In(StrUniversity, text)
    THEN "InstitutionRow"
    ELSE IF Head(text) = BULLET THEN "BulletEntry"
    ELSE IF prevRole = "SectionHeader"
            /\ (In(StrCourses, text) \/ In(StrSkills, text))
    THEN "LabelValue"
    ELSE "PlainText"

Scenario1Roles ==
    <<"Name", "ContactLine", "SectionHeader", "InstitutionRow",
      "BulletEntry">>

\* C1: every non-empty stripped line of the input gets exactly one
\* paragraph, whose role is that of the first matching rule in the order
\* SectionHeader, ContactLine, Name, InstitutionRow, BulletEntry,
\* LabelValue, PlainText; scenario 1 yields Name, ContactLine,
\* SectionHeader, InstitutionRow, BulletEntry.
C1_FirstMatchingRule ==
    /\ pc \in {"format", "done"} => Srcs(document) = StrippedLines(idx - 1)
    /\ \A k \in DOMAIN document :
          document[k].role
              = C1_RuleRole(document[k].src, PrevRole(document, k), k > 1)
    /\ (pc = "done" /\ content = Scenario1)
          => Roles(document) = Scenario1Roles

C1_Witness ==
    /\ pc = "done"
    /\ content = Scenario1
    /\ Roles(document) = Scenario1Roles

\* C2 as stated: the first non-empty line is always Name.
C2_FirstLineAlwaysName ==
    Len(document) >= 1 => document[1].role = "Name"

\* C2 amended: the first non-empty line is Name, in NameStyle with its text
\* upper-cased, unless it is all upper-case without bullet and '@'
\* (SectionHeader) or contains both '@' and a bullet (ContactLine).
C2_FirstLineNameUnlessHeaderOrContact ==
    Len(document) >= 1 =>
        LET p == document[1]
        IN  IF IsUpper(p.src) /\ ~In(<<BULLET>>, p.src) /\ ~In(<<AT>>, p.src)
            THEN p.role = "SectionHeader"
            ELSE IF In(<<AT>>, p.src) /\ In(<<BULLET>>, p.src)
            THEN p.role = "ContactLine"
            ELSE /\ p.role = "Name"
                 /\ p.style = "NameStyle"
                 /\ ParagraphText(p) = StrUpper(p.src)

C2_Witness ==
    /\ Len(document) >= 1
    /\ document[1].src = LineBulletPlain
    /\ document[1].role = "Name"
    /\ ParagraphText(document[1]) = <<BULLET, "X">>

\* C3: a line that is all upper-case and has neither bullet nor '@' becomes
\* a SectionHeader at any position, and previous_style is SectionStyle
\* right after it.
C3_UpperCaseIsSectionHeader ==
    /\ \A k \in DOMAIN document :
          (/\ IsUpper(document[k].src)
           /\ ~In(<<BULLET>>, document[k].src)
           /\ ~In(<<AT>>, document[k].src))
          => /\ document[k].role = "SectionHeader"
             /\ document[k].style = "SectionStyle"
             /\ ParagraphText(document[k]) = document[k].src
    /\ (/\ pc = "format"
        /\ idx > 1
        /\ LET text == Strip(content[idx - 1])
           IN  IsUpper(text) /\ ~In(<<BULLET>>, text) /\ ~In(<<AT>>, text))
       => /\ previous_style = "SectionStyle"
          /\ document # <<>>
          /\ document[Len(document)].role = "SectionHeader"

\* a header as first line, and a header right after a header
C3_Witness ==
    /\ pc = "format"
    /\ idx = 3
    /\ content[1] = LineEdu
    /\ content[2] = LineEdu
    /\ Roles(document) = <<"SectionHeader", "SectionHeader">>
    /\ previous_style = "SectionStyle"

\* C4 as stated: formatting the text of a formatted document again yields
\* the same roles.
C4_SecondRunSameRoles ==
    (pc = "done" /\ pass = 2) => Roles(document) = first_roles

\* C5 as stated: an InstitutionRow keeps its tab-separated parts (up to
\* three) in order, also when there are fewer than three.
C5_InstitutionRowKeepsParts ==
    \A k \in DOMAIN document :
        (/\ PrevRole(document, k) = "SectionHeader"
         /\ In(StrUniversity, document[k].src)
         /\ ~In(<<AT>>, document[k].src))
        => /\ document[k].role = "InstitutionRow"
           /\ LET parts == Split(document[k].src, <<TAB>>)
                  kept  == SubSeq(parts, 1, IF Len(parts) > 3 THEN 3
                                            ELSE Len(parts))
              IN  ParagraphText(document[k]) = Join(kept, <<TAB>>)

\* C6 as stated: every line that starts with a bullet is a BulletEntry.
C6_EveryBulletLineIsBulletEntry ==
    \A k \in DOMAIN document :
        Head(document[k].src) = BULLET => document[k].role = "BulletEntry"

\* C6 amended: a line that starts with a bullet is a BulletEntry unless an
\* earlier rule takes it (it contains '@', it is the first emitted line,
\* or it contains 'University' right after a SectionHeader).  The text
\* after the marker, stripped, is split at its first ' - ' only: a bold
\* '(bullet) ', the stripped title in bold, then ' - ' and the stripped
\* description; without ' - ' a bold '(bullet) ' and the remainder.
C6_BulletEntryUnlessEarlierRule ==
    \A k \in DOMAIN document :
        (/\ Head(document[k].src) = BULLET
         /\ ~In(<<AT>>, document[k].src)
         /\ k > 1
         /\ ~(PrevRole(document, k) = "SectionHeader"
                /\ In(StrUniversity, document[k].src)))
        => LET p    == document[k]
               rest == Strip(SubSeq(p.src, 2, Len(p.src)))
               i    == Find(rest, StrDash)
               title == Strip(SubSeq(rest, 1, i - 1))
               description == Strip(SubSeq(rest, i + 3, Len(rest)))
           IN  /\ p.role = "BulletEntry"
               /\ p.runs[1] = Run(<<BULLET, " ">>, TRUE)
               /\ IF i # 0
                  THEN /\ Len(p.runs) = 3
                       /\ p.runs[2] = Run(title, TRUE)
                       /\ p.runs[3] = Run(StrDash \o description, FALSE)
                       /\ ParagraphText(p)
                            = <<BULLET, " ">> \o title \o StrDash
                              \o description
                  ELSE /\ Len(p.runs) = 2
                       /\ p.runs[2] = Run(rest, FALSE)
                       /\ ParagraphText(p) = <<BULLET, " ">> \o rest

\* a bullet line with two ' - ', split at the first
C6_Witness ==
    \E k \in DOMAIN document :
        /\ k > 1
        /\ document[k].src = LineBulletTwoDash
        /\ document[k].role = "BulletEntry"
        /\ document[k].runs[2].text = <<"T">>
        /\ document[k].runs[3].text
             = <<" ", "-", " ", "d", " ", "-", " ", "e">>

\* C7: a line with both a bullet and '@' is a ContactLine at any position;
\* its text is the bullet-separated tokens, each stripped, joined with
\* ' (bullet) ', and canonicalising that text again leaves it unchanged.
C7_ContactLineCanonical ==
    \A k \in DOMAIN document :
        (In(<<BULLET>>, document[k].src) /\ In(<<AT>>, document[k].src))
        => LET p      == document[k]
               tokens == Split(p.src, <<BULLET>>)
               canon  == Join([j \in DOMAIN tokens |-> Strip(tokens[j])],
                              StrBulletSep)
               again  == Split(canon, <<BULLET>>)
           IN  /\ p.role = "ContactLine"
               /\ p.style = "ContactStyle"
               /\ ParagraphText(p) = canon
               /\ Join([j \in DOMAIN again |-> Strip(again[j])],
                       StrBulletSep) = canon

\* 'a@b (bullet)c' after a header becomes 'a@b (bullet) c'
C7_Witness ==
    \E k \in DOMAIN document :
        /\ k > 1
        /\ document[k].src = LineContactRaw
        /\ document[k].role = "ContactLine"
        /\ ParagraphText(document[k]) = <<"a", AT, "b", " ", BULLET, " ", "c">>

\* C8: a paragraph that is empty after stripping adds no paragraph and
\* leaves previous_style as it was: at every point of the loop the
\* document and previous_style are those of formatting only the non-blank
\* paragraphs read so far.
C8_BlankLinesSkipped ==
    pc \in {"format", "done"} =>
        LET kept == SelectSeq(SubSeq(content, 1, idx - 1), NonBlank)
            ref  == FormatResume(kept)
        IN  /\ document = ref
            /\ Len(document) = Len(kept)
            /\ previous_style
                 = IF ref = <<>> THEN None ELSE ref[Len(ref)].style

\* a blank line between a header and a 'University' line
C8_Witness ==
    /\ pc = "done"
    /\ content = <<LineEdu, LineBlank, LineUniTwo>>
    /\ Roles(document) = <<"SectionHeader", "InstitutionRow">>

\* ------------------------------------------------------------------------
\* Properties of /generate-cover-letter
\* ------------------------------------------------------------------------
\* C9 as stated: every request that has been handled was answered with a
\* structured response, and the server is still running.
C9_EveryFailureAnswered ==
    (served > 0 /\ cpc = "idle")
    => (response.kind \in {"error", "success"} /\ alive)

\* C10 as stated: a success response names a file that write_docx saved.
C10_RenderFailureReported ==
    (cpc = "idle" /\ response.kind = "success")
    => response.file_path \in DOMAIN outputs

\* the extension of a path is docx in any case of letters
HasDocxExtension(path) ==
    /\ Len(path) >= 5
    /\ path[Len(path) - 4] = "."
    /\ StrLower(SubSeq(path, Len(path) - 3, Len(path)))
         = <<"d", "o", "c", "x">>

\* C11: the completion API is called at most once per request and only
\* with three non-empty form fields and two uploads that passed the
\* extension check, were saved and were read; while the files and the form
\* are still being checked no call has been made, and a request answered
\* with status 400 or ended by the exit in read_docx made no call.
C11_GenerationAfterValidation ==
    /\ Len(request_calls) <= 1
    /\ cpc \in {"resume", "form"} => request_calls = <<>>
    /\ (/\ cpc = "idle"
        /\ \/ response.kind = "none"
           \/ response.kind = "error" /\ response.status = 400)
       => request_calls = <<>>
    /\ \A k \in DOMAIN request_calls :
          LET c == request_calls[k]
          IN  /\ c.user_name # None /\ c.user_name # <<>>
              /\ c.job_title # None /\ c.job_title # <<>>
              /\ c.company_name # None /\ c.company_name # <<>>
              /\ HasDocxExtension(c.job_description)
              /\ HasDocxExtension(c.user_resume)
    /\ cpc = "write"
       => /\ Len(request_calls) = 1
          /\ request_calls[1].job_description = job_description_path
          /\ request_calls[1].user_resume = resume_path
          /\ {job_description_path, resume_path} \subseteq uploads

\* a valid request right after its call of the completion API
C11_Witness ==
    /\ cpc = "write"
    /\ Len(request_calls) = 1
    /\ gen_calls >= 1
    /\ request_calls[1].user_name = FieldValue

\* C12 as stated: no two requests write to the same output path.
C12_OutputPathsDistinct ==
    \A i, j \in DOMAIN paths_written :
        i # j => paths_written[i] # paths_written[j]

\* C13: when the handler returns its success response, each of the two
\* saved uploads is gone from the upload folder, or the failure to delete
\* it has been logged with its path; the response is the success response
\* in both cases.
C13_UploadsDeletedOnSuccess ==
    [][(cpc = "cleanup" /\ cpc' = "idle")
       => /\ response'.kind = "success"
          /\ response'.status = 200
          /\ \A p \in {job_description_path, resume_path} :
                \/ p \notin uploads'
                \/ LogEntry("Error cleaning up file", p) \in log']_vars

\* a success response after both uploads were deleted
C13_Witness ==
    /\ cpc = "idle"
    /\ response.kind = "success"
    /\ served >= 1
    /\ uploads = {}
    /\ \A entry \in log : entry.message # "Error cleaning up file"

\* ------------------------------------------------------------------------
\* Properties of format_cover_letter
\* ------------------------------------------------------------------------
\* C14: the letter is the upper-cased name, the contact line, the date, the
\* recipient, 'Dear Hiring Manager,', then one ContentStyle paragraph for
\* every non-blank piece of the body split at '\n\n', in order and
\* stripped, then 'Sincerely,' with the name; the body
\* 'Para one.\n\nPara two.' gives exactly two content paragraphs.
C14_CoverLetterBlocks ==
    lpc = "done" =>
        LET info   == letter_args.user_info
            pieces == Split(letter_args.content, <<NL, NL>>)
            paras  == SelectSeq(pieces, LAMBDA p : Strip(p) # <<>>)
            n      == Len(paras)
        IN  /\ Len(letter) = 6 + n
            /\ letter[1] = LetterParagraph("HeaderStyle",
                              <<Run(StrUpper(info["name"]), TRUE)>>)
            /\ letter[2].style = "HeaderStyle"
            /\ StartsWith(ParagraphText(letter[2]),
                          info["email"] \o StrBulletSep \o info["phone"])
            /\ letter[3].style = "DateStyle"
            /\ ParagraphText(letter[3]) = letter_args.today
            /\ letter[4].style = "RecipientStyle"
            /\ ParagraphText(letter[4])
                 = info["company_name"] \o StrHiringManager
            /\ ParagraphText(letter[5]) = StrSalutation
            /\ \A k \in 1..n :
                  /\ letter[5 + k].style = "ContentStyle"
                  /\ ParagraphText(letter[5 + k]) = Strip(paras[k])
            /\ ParagraphText(letter[6 + n]) = StrSincerely \o info["name"]
            /\ letter_args.content = Letter => n = 2

\* the body 'Para one.\n\nPara two.' formatted into eight paragraphs
C14_Witness ==
    /\ lpc = "done"
    /\ letter_args.content = Letter
    /\ Len(letter) = 8
    /\ ParagraphText(letter[6])
         = <<"P", "a", "r", "a", " ", "o", "n", "e", ".">>
    /\ ParagraphText(letter[7])
         = <<"P", "a", "r", "a", " ", "t", "w", "o", ".">>

====
